---- MODULE Spec2Model ----
(***************************************************************************)
(* Model of the Chart.js layout repair in docs/js/chartjs-fix.js: the      *)
(* wrapper installed over Chart.layouts.update, which runs the host layout *)
(* and then repairs non-finite scale dimensions and recomputes chartArea.  *)
(* JavaScript values are modelled with their coercion rules (isFinite,     *)
(* truthiness, unary plus, Math.min/Math.max, NaN and infinity arithmetic).*)
(***************************************************************************)
EXTENDS Integers, FiniteSets, Sequences, TLC

(***************************************************************************)
(* JavaScript values: numbers, NaN, +/-Infinity, undefined, null.          *)
(***************************************************************************)
Num(n) == [k |-> "num", v |-> n]
NaN == [k |-> "NaN", v |-> 0]
Undefined == [k |-> "undefined", v |-> 0]
Null == [k |-> "null", v |-> 0]
PosInf == [k |-> "Infinity", v |-> 0]
NegInf == [k |-> "-Infinity", v |-> 0]

\* unary plus / ToNumber: undefined -> NaN, null -> 0
ToNumber(x) ==
    CASE x.k = "undefined" -> NaN
      [] x.k = "null" -> Num(0)
      [] OTHER -> x

\* global isFinite(x): coerces first, so isFinite(null) is true
IsFinite(x) == ToNumber(x).k = "num"

\* a value that is a finite number (typeof number, not NaN, not infinite)
IsFiniteNumber(x) == x.k = "num"

\* JavaScript truthiness of a value: 0, NaN, undefined, null are falsy
Truthy(x) ==
    CASE x.k = "num" -> x.v # 0
      [] x.k \in {"Infinity", "-Infinity"} -> TRUE
      [] OTHER -> FALSE

\* a || b
Or(a, b) == IF Truthy(a) THEN a ELSE b

Sign(x) ==
    CASE x.k = "Infinity" -> 1
      [] x.k = "-Infinity" -> -1
      [] x.k = "num" -> IF x.v > 0 THEN 1 ELSE IF x.v < 0 THEN -1 ELSE 0
      [] OTHER -> 0

Neg(x) ==
    LET n == ToNumber(x) IN
    CASE n.k = "num" -> Num(0 - n.v)
      [] n.k = "Infinity" -> NegInf
      [] n.k = "-Infinity" -> PosInf
      [] OTHER -> NaN

\* a + b on numbers
Add(a, b) ==
    LET x == ToNumber(a)
        y == ToNumber(b)
    IN  CASE x.k = "NaN" \/ y.k = "NaN" -> NaN
          [] x.k = "num" /\ y.k = "num" -> Num(x.v + y.v)
          [] x.k = "num" -> y
          [] y.k = "num" -> x
          [] x.k = y.k -> x
          [] OTHER -> NaN

\* a - b
Sub(a, b) == Add(a, Neg(b))

\* a * b
Mul(a, b) ==
    LET x == ToNumber(a)
        y == ToNumber(b)
    IN  CASE x.k = "NaN" \/ y.k = "NaN" -> NaN
          [] x.k = "num" /\ y.k = "num" -> Num(x.v * y.v)
          [] Sign(x) * Sign(y) > 0 -> PosInf
          [] Sign(x) * Sign(y) < 0 -> NegInf
          [] OTHER -> NaN

\* a / b; finite operands are chosen so that the quotient is an integer
Div(a, b) ==
    LET x == ToNumber(a)
        y == ToNumber(b)
    IN  CASE x.k = "NaN" \/ y.k = "NaN" -> NaN
          [] x.k = "num" /\ y.k = "num" ->
                IF y.v # 0 THEN Num(x.v \div y.v)
                ELSE IF x.v > 0 THEN PosInf
                ELSE IF x.v < 0 THEN NegInf ELSE NaN
          [] x.k = "num" -> Num(0)
          [] y.k = "num" -> IF Sign(x) * (IF y.v < 0 THEN -1 ELSE 1) > 0
                            THEN PosInf ELSE NegInf
          [] OTHER -> NaN

\* x < y on numbers that are not NaN
NumLess(x, y) ==
    CASE x.k = "num" /\ y.k = "num" -> x.v < y.v
      [] x.k = "-Infinity" -> y.k # "-Infinity"
      [] y.k = "Infinity" -> x.k # "Infinity"
      [] OTHER -> FALSE

\* a > b (false when either side is NaN)
Gt(a, b) ==
    LET x == ToNumber(a)
        y == ToNumber(b)
    IN  x.k # "NaN" /\ y.k # "NaN" /\ NumLess(y, x)

\* Math.min(a, b)
MathMin(a, b) ==
    LET x == ToNumber(a)
        y == ToNumber(b)
    IN  IF x.k = "NaN" \/ y.k = "NaN" THEN NaN
        ELSE IF NumLess(y, x) THEN y ELSE x

\* Math.max(a, b)
MathMax(a, b) ==
    LET x == ToNumber(a)
        y == ToNumber(b)
    IN  IF x.k = "NaN" \/ y.k = "NaN" THEN NaN
        ELSE IF NumLess(x, y) THEN y ELSE x

\* sanitizeNum(val, fallback): defined by the patch but never called
sanitizeNum(val, fallback) ==
    IF IsFinite(val) /\ val # Null THEN val ELSE Or(fallback, Num(0))


(***************************************************************************)
(* Constants of the patch.                                                 *)
(***************************************************************************)
DefaultPad == 3
FallbackMaxWidth == 200
FallbackMaxHeight == 60
FixedMargin == 8

(***************************************************************************)
(* Bounds of the model.                                                    *)
(***************************************************************************)
\* layout passes run on one chart
MaxPasses == 2
\* scales a chart configuration hides one by one (besides hiding all)
MaxHidden == 1
\* calls of Chart.layouts.update in one run, and calls in progress at once
MaxCalls == 2
MaxDepth == 2

(***************************************************************************)
(* Scales.  A scale is a record of its configuration (position,            *)
(* isHorizontal(), options, maxWidth/maxHeight, the outcome of             *)
(* _getLabelSizes()) and its geometry (width, height, left, right, top,    *)
(* bottom, _length).                                                       *)
(***************************************************************************)
Sides == {"left", "right", "top", "bottom"}

\* the outcome of scale._getLabelSizes(): kind "absent" (no such method),
\* "throws", "none" (returns nothing usable) or "sizes" (widest.width and
\* highest.height are w and h)
Labels(kind, w, h) == [kind |-> kind, w |-> w, h |-> h]

\* scale.options: present is FALSE when scale.options is missing, hasTicks is
\* FALSE when options.ticks is missing
Options(present, display, hasTicks, padding) ==
    [present |-> present, display |-> display, hasTicks |-> hasTicks,
     padding |-> padding]

\* the label width starting at the ceiling: without a measurement the width
\* falls back to maxWidth
labelW_startsAtCeiling(scale) ==
    IF scale.labels.kind = "sizes" THEN Or(scale.labels.w, Num(0))
    ELSE Or(scale.maxWidth, Num(0))

\* (sizes && sizes.widest && sizes.widest.width) || 0, 0 when the call throws
labelW(scale) ==
    IF scale.labels.kind = "sizes" THEN Or(scale.labels.w, Num(0)) ELSE Num(0)

\* (sizes && sizes.highest && sizes.highest.height) || 0
labelH(scale) ==
    IF scale.labels.kind = "sizes" THEN Or(scale.labels.h, Num(0)) ELSE Num(0)

\* the padding with || 0 for || 3: a missing padding resolves to 0
pad_zeroFallback(scale) ==
    IF scale.options.present /\ scale.options.hasTicks
    THEN Or(ToNumber(scale.options.padding), Num(0))
    ELSE Num(0)

\* (scale.options && scale.options.ticks && +scale.options.ticks.padding) || 3
pad(scale) ==
    IF scale.options.present /\ scale.options.hasTicks
    THEN Or(ToNumber(scale.options.padding), Num(DefaultPad))
    ELSE Num(DefaultPad)

\* the fit with the ceiling defaulting to 0 for 200: a missing maxWidth caps
\* the width at 0
fitWidth_zeroCeiling(scale) ==
    MathMin(Or(scale.maxWidth, Num(0)),
            Add(Add(labelW(scale), Mul(pad(scale), Num(2))), Num(FixedMargin)))

\* the fit with the padding counted on one side only
fitWidth_padOnce(scale) ==
    MathMin(Or(scale.maxWidth, Num(FallbackMaxWidth)),
            Add(Add(labelW(scale), pad(scale)), Num(FixedMargin)))

\* Math.min(scale.maxWidth || 200, labelW + pad * 2 + 8)
fitWidth(scale) ==
    MathMin(Or(scale.maxWidth, Num(FallbackMaxWidth)),
            Add(Add(labelW(scale), Mul(pad(scale), Num(2))), Num(FixedMargin)))

\* Math.min(scale.maxHeight || 60, labelH + pad * 2 + 8)
fitHeight(scale) ==
    MathMin(Or(scale.maxHeight, Num(FallbackMaxHeight)),
            Add(Add(labelH(scale), Mul(pad(scale), Num(2))), Num(FixedMargin)))

\* the scale is refitted by the repair loop
NeedsFit(scale) ==
    \/ ~scale.isH /\ ~IsFinite(scale.width)
    \/ scale.isH /\ ~IsFinite(scale.height)

\* one iteration of the repair loop
RepairScale(scale) ==
    IF ~scale.isH /\ ~IsFinite(scale.width)
    THEN [scale EXCEPT !.width = fitWidth(scale), !._length = scale.height]
    ELSE IF scale.isH /\ ~IsFinite(scale.height)
    THEN [scale EXCEPT !.height = fitHeight(scale), !._length = scale.width]
    ELSE scale

\* thickness of a band: width of a vertical scale, height of a horizontal one
Thickness(scale) == IF scale.isH THEN scale.height ELSE scale.width

\* needsRepair with the early return inverted: repairs when nothing is broken
needsRepair_inverted(ss) ==
    \A id \in DOMAIN ss : IsFinite(ss[id].width) /\ IsFinite(ss[id].height)

\* the needsRepair scan over Object.values(chart.scales)
needsRepair(ss) ==
    \E id \in DOMAIN ss : ~IsFinite(ss[id].width) \/ ~IsFinite(ss[id].height)


(***************************************************************************)
(* The wrapped Chart.layouts.update.                                       *)
(***************************************************************************)
\* chart.chartArea: obj is FALSE when the host left it null or undefined
Area(obj, l, r, t, b, w, h) ==
    [obj |-> obj, left |-> l, right |-> r, top |-> t, bottom |-> b,
     width |-> w, height |-> h]

\* width || (chart.canvas && chart.canvas.width / (dpr || 1)) || 0
chartW(s) ==
    Or(Or(s.width,
          IF s.canvas THEN Div(s.canvasWidth, Or(s.dpr, Num(1))) ELSE Null),
       Num(0))

\* height || (chart.canvas && chart.canvas.height / (dpr || 1)) || 0
chartH(s) ==
    Or(Or(s.height,
          IF s.canvas THEN Div(s.canvasHeight, Or(s.dpr, Num(1))) ELSE Null),
       Num(0))

\* the accumulation without the display check: hidden scales take room too
padOf_countsHidden(side, ss) ==
    LET onSide == {id \in DOMAIN ss : ss[id].position = side}
        vals == {Num(0)} \cup {Or(Thickness(ss[id]), Num(0)) : id \in onSide}
    IN  CHOOSE m \in vals : \A v \in vals : ~NumLess(m, v)

\* the padding one side accumulates: the Math.max, from 0, of the thickness
\* (|| 0) of the scales shown on that side
padOf(side, ss) ==
    LET shown == {id \in DOMAIN ss : /\ ss[id].options.present
                                     /\ ss[id].options.display
                                     /\ ss[id].position = side}
        vals == {Num(0)} \cup {Or(Thickness(ss[id]), Num(0)) : id \in shown}
    IN  CHOOSE m \in vals : \A v \in vals : ~NumLess(m, v)

\* the recomputed chartArea with the canvas extents for width and height
ca_extentsOfCanvas(ss, cw, chh) ==
    LET l == padOf("left", ss)
        r == Sub(cw, padOf("right", ss))
        t == padOf("top", ss)
        b == Sub(chh, padOf("bottom", ss))
    IN  Area(TRUE, l, r, t, b, cw, chh)

\* the chartArea recomputed from the paddings
ca(ss, cw, chh) ==
    LET l == padOf("left", ss)
        r == Sub(cw, padOf("right", ss))
        t == padOf("top", ss)
        b == Sub(chh, padOf("bottom", ss))
    IN  Area(TRUE, l, r, t, b, Sub(r, l), Sub(b, t))

\* placement that gives a left scale the region's width for its own
place_leftTakesRegionWidth(scale, a, cw, chh) ==
    CASE scale.position = "left" ->
            [scale EXCEPT !.left = Num(0), !.right = a.left, !.top = a.top,
                          !.bottom = a.bottom, !.width = a.width,
                          !.height = a.height, !._length = a.height]
      [] scale.position = "right" ->
            [scale EXCEPT !.left = a.right, !.right = cw, !.top = a.top,
                          !.bottom = a.bottom, !.width = Sub(cw, a.right),
                          !.height = a.height, !._length = a.height]
      [] scale.position = "top" ->
            [scale EXCEPT !.left = a.left, !.right = a.right, !.top = Num(0),
                          !.bottom = a.top, !.width = a.width,
                          !.height = a.top, !._length = a.width]
      [] scale.position = "bottom" ->
            [scale EXCEPT !.left = a.left, !.right = a.right,
                          !.top = a.bottom, !.bottom = chh,
                          !.width = a.width, !.height = Sub(chh, a.bottom),
                          !._length = a.width]
      [] OTHER -> scale

\* placement that stretches a bottom scale over the full canvas width
place_bottomFullWidth(scale, a, cw, chh) ==
    CASE scale.position = "left" ->
            [scale EXCEPT !.left = Num(0), !.right = a.left, !.top = a.top,
                          !.bottom = a.bottom, !.width = a.left,
                          !.height = a.height, !._length = a.height]
      [] scale.position = "right" ->
            [scale EXCEPT !.left = a.right, !.right = cw, !.top = a.top,
                          !.bottom = a.bottom, !.width = Sub(cw, a.right),
                          !.height = a.height, !._length = a.height]
      [] scale.position = "top" ->
            [scale EXCEPT !.left = a.left, !.right = a.right, !.top = Num(0),
                          !.bottom = a.top, !.width = a.width,
                          !.height = a.top, !._length = a.width]
      [] scale.position = "bottom" ->
            [scale EXCEPT !.left = Num(0), !.right = cw,
                          !.top = a.bottom, !.bottom = chh,
                          !.width = cw, !.height = Sub(chh, a.bottom),
                          !._length = cw]
      [] OTHER -> scale

\* placement that gives a right scale the region's width for its _length
place_rightLengthOfWidth(scale, a, cw, chh) ==
    CASE scale.position = "left" ->
            [scale EXCEPT !.left = Num(0), !.right = a.left, !.top = a.top,
                          !.bottom = a.bottom, !.width = a.left,
                          !.height = a.height, !._length = a.height]
      [] scale.position = "right" ->
            [scale EXCEPT !.left = a.right, !.right = cw, !.top = a.top,
                          !.bottom = a.bottom, !.width = Sub(cw, a.right),
                          !.height = a.height, !._length = a.width]
      [] scale.position = "top" ->
            [scale EXCEPT !.left = a.left, !.right = a.right, !.top = Num(0),
                          !.bottom = a.top, !.width = a.width,
                          !.height = a.top, !._length = a.width]
      [] scale.position = "bottom" ->
            [scale EXCEPT !.left = a.left, !.right = a.right,
                          !.top = a.bottom, !.bottom = chh,
                          !.width = a.width, !.height = Sub(chh, a.bottom),
                          !._length = a.width]
      [] OTHER -> scale

\* the placement loop's assignment to one scale
place(scale, a, cw, chh) ==
    CASE scale.position = "left" ->
            [scale EXCEPT !.left = Num(0), !.right = a.left, !.top = a.top,
                          !.bottom = a.bottom, !.width = a.left,
                          !.height = a.height, !._length = a.height]
      [] scale.position = "right" ->
            [scale EXCEPT !.left = a.right, !.right = cw, !.top = a.top,
                          !.bottom = a.bottom, !.width = Sub(cw, a.right),
                          !.height = a.height, !._length = a.height]
      [] scale.position = "top" ->
            [scale EXCEPT !.left = a.left, !.right = a.right, !.top = Num(0),
                          !.bottom = a.top, !.width = a.width,
                          !.height = a.top, !._length = a.width]
      [] scale.position = "bottom" ->
            [scale EXCEPT !.left = a.left, !.right = a.right,
                          !.top = a.bottom, !.bottom = chh,
                          !.width = a.width, !.height = Sub(chh, a.bottom),
                          !._length = a.width]
      [] OTHER -> scale

\* the guard with || for &&: writes when only one extent is positive
writes_eitherPositive(a) == Gt(a.width, Num(0)) \/ Gt(a.height, Num(0))

\* the guard with >= for >: writes a region of width or height 0
writes_nonNegative(a) == ~Gt(Num(0), a.width) /\ ~Gt(Num(0), a.height)

\* the guard of the write: ca.width > 0 && ca.height > 0
writes(a) == Gt(a.width, Num(0)) /\ Gt(a.height, Num(0))

\* what the wrapper leaves once origUpdate has returned the host layout
\* (hostScales, hostArea) and the value hostResult for a chart of the given
\* kind on surface s: the scales, the chartArea, the scales as the repair
\* loop left them, whether the placement loop ran, whether the call returned
\* or threw (Object.assign on a null chartArea throws a TypeError), and the
\* value returned
update(kind, hostScales, hostArea, hostResult, s) ==
    LET asHost(st) == [scales |-> hostScales, chartArea |-> hostArea,
                       repaired |-> hostScales, placed |-> FALSE,
                       status |-> st,
                       result |-> IF st = "threw" THEN Undefined
                                  ELSE hostResult]
    IN  IF kind # "chart" THEN asHost("returned")
        ELSE IF ~needsRepair(hostScales) THEN asHost("returned")
        ELSE LET rep == [id \in DOMAIN hostScales |->
                            RepairScale(hostScales[id])]
                 a == ca(rep, chartW(s), chartH(s))
             IN  IF ~writes(a)
                 THEN [asHost("returned") EXCEPT !.scales = rep,
                                                 !.repaired = rep]
                 ELSE IF ~hostArea.obj
                 THEN [asHost("threw") EXCEPT !.scales = rep,
                                              !.repaired = rep]
                 ELSE [scales |-> [id \in DOMAIN rep |->
                                     place(rep[id], a, chartW(s), chartH(s))],
                       chartArea |-> a, repaired |-> rep, placed |-> TRUE,
                       status |-> "returned", result |-> hostResult]


(***************************************************************************)
(* State.                                                                  *)
(***************************************************************************)
VARIABLES
    chartKind,  \* "chart", "noScales" (chart.scales missing) or "null"
    scales,     \* chart.scales: scale id -> scale
    chartArea,  \* chart.chartArea
    surface,    \* width, height, chart.canvas and devicePixelRatio of the
                \* last call of Chart.layouts.update
    host,       \* scales and chartArea as origUpdate left them in that call,
                \* and the value origUpdate returned
    repaired,   \* the scales as the repair loop left them in that call
    placed,     \* the placement loop ran in that call
    status,     \* "constructed", then "returned" or "threw" for that call
    result,     \* the value that call returned
    passes,     \* calls of Chart.layouts.update so far
    fit,        \* one axis taken through the repair loop on its own
    upd,        \* one call of a scale's wrapped update: the arguments the
                \* host passed and those that reached the original update
    stack,      \* the calls of Chart.layouts.update in progress, innermost
                \* last: the scales each has still to visit in its repair
                \* loop and whether it is inside scale._getLabelSizes()
    patch,      \* the margin patch: wrappers around Chart.layouts.update and
                \* around each scale's update, and the passes in progress
    chat,       \* the chatbot: conversationHistory, systemPrompt,
                \* isStreaming, and the sendMessage calls in progress
    loader      \* DOTP.loadJSON: the cache, the fetches in flight and the
                \* callers waiting on them

layoutVars == <<chartKind, scales, chartArea, surface, host, repaired,
                placed, status, result, passes>>
pageVars == <<patch, chat, loader>>
vars == <<chartKind, scales, chartArea, surface, host, repaired, placed,
          status, result, passes, fit, upd, stack, patch, chat, loader>>

(***************************************************************************)
(* Charts of the dashboard: doughnut (no scales), one left axis, bar       *)
(* (x, y), dual axis (x, y, y2), a chart with a band on every side, and a  *)
(* bar chart with a further vertical axis drawn at the centre (a position  *)
(* the placement loop has no branch for).                                  *)
(***************************************************************************)
ScaleIds == {"x", "y", "y2", "x2", "yc"}
ChartShapes == {{}, {"y"}, {"x", "y"}, {"x", "y", "y2"},
                {"x", "x2", "y", "y2"}, {"x", "y", "yc"}}

positionOf(id) ==
    CASE id = "x" -> "bottom"
      [] id = "y" -> "left"
      [] id = "y2" -> "right"
      [] id = "x2" -> "top"
      [] id = "yc" -> "center"

\* Scale.isHorizontal() of the host: top and bottom scales are horizontal
isHorizontal(position) == position \in {"top", "bottom"}

\* tick options, label sizes and extent ceilings a chart gives its scales
Presets ==
    { \* padding unset, labels 40 x 12, ceilings 200 x 60
      [hasTicks |-> TRUE, padding |-> Undefined,
       labels |-> Labels("sizes", Num(40), Num(12)),
       maxWidth |-> Num(200), maxHeight |-> Num(60)],
      \* the measurer throws and the host left no ceilings
      [hasTicks |-> FALSE, padding |-> Undefined,
       labels |-> Labels("throws", Undefined, Undefined),
       maxWidth |-> Undefined, maxHeight |-> NaN],
      \* labels larger than the ceilings
      [hasTicks |-> TRUE, padding |-> Num(0),
       labels |-> Labels("sizes", Num(100), Num(100)),
       maxWidth |-> Num(70), maxHeight |-> Num(60)] }

\* a scale after construction: configured, no geometry yet
NewScale(id, shown, preset) ==
    [position |-> positionOf(id), isH |-> isHorizontal(positionOf(id)),
     options |-> Options(TRUE, shown, preset.hasTicks, preset.padding),
     labels |-> preset.labels,
     maxWidth |-> preset.maxWidth, maxHeight |-> preset.maxHeight,
     width |-> Undefined, height |-> Undefined, left |-> Undefined,
     right |-> Undefined, top |-> Undefined, bottom |-> Undefined,
     _length |-> Undefined]

NoArea == Area(FALSE, Undefined, Undefined, Undefined, Undefined, Undefined,
               Undefined)

\* the call arguments and canvas of a layout pass
Surface(w, h, canvas, cw, chh, dpr) ==
    [width |-> w, height |-> h, canvas |-> canvas, canvasWidth |-> cw,
     canvasHeight |-> chh, dpr |-> dpr]

Surfaces ==
    { Surface(Num(800), Num(400), TRUE, Num(1600), Num(800), Num(2)),
      Surface(Num(100), Num(100), TRUE, Num(100), Num(100), Undefined),
      Surface(Undefined, Undefined, TRUE, Num(200), Num(200), Num(2)),
      Surface(Undefined, Undefined, FALSE, Undefined, Undefined, Undefined) }

NoSurface == Surface(Undefined, Undefined, FALSE, Undefined, Undefined,
                     Undefined)

(***************************************************************************)
(* The host layout (origUpdate) is outside the patch: it leaves each       *)
(* scale's thickness either finite or defective, and the rest of the       *)
(* geometry and chartArea finite, NaN, or chartArea missing altogether.    *)
(***************************************************************************)
Defects == {NaN, Undefined, Null, PosInf}
HostGeometries == {"finite", "NaN", "noArea"}

hostThickness == [left |-> 70, right |-> 60, top |-> 10, bottom |-> 20,
                  center |-> 30]

HostScale(scale, bad, defect, geom) ==
    LET g(n) == IF geom = "NaN" THEN NaN ELSE Num(n)
        t == IF bad THEN defect ELSE Num(hostThickness[scale.position])
    IN  [scale EXCEPT !.width = IF scale.isH THEN g(300) ELSE t,
                      !.height = IF scale.isH THEN t ELSE g(150),
                      !.left = g(1), !.right = g(2), !.top = g(3),
                      !.bottom = g(4), !._length = g(5)]

HostArea(geom) ==
    CASE geom = "finite" -> Area(TRUE, Num(1), Num(2), Num(3), Num(4),
                                 Num(1), Num(1))
      [] geom = "NaN" -> Area(TRUE, NaN, NaN, NaN, NaN, NaN, NaN)
      [] OTHER -> NoArea

\* the layouts the host can leave for the chart's scales
HostLayouts(ss) ==
    { [scales |-> [id \in DOMAIN ss |->
                      HostScale(ss[id], id \in bad, defect, geom)],
       chartArea |-> HostArea(geom), result |-> Num(1)] :
        bad \in SUBSET DOMAIN ss, defect \in Defects, geom \in HostGeometries }

(***************************************************************************)
(* One axis on its own: inputs of the repair loop body.                    *)
(***************************************************************************)
PadValues == {Undefined, Null, NaN, PosInf, NegInf,
              Num(0), Num(3), Num(5), Num(-10)}
LabelOutcomes == {Labels("absent", Undefined, Undefined),
                  Labels("throws", Undefined, Undefined),
                  Labels("none", Undefined, Undefined),
                  Labels("sizes", Num(0), Num(0)),
                  Labels("sizes", Num(40), Num(12)),
                  Labels("sizes", NaN, NaN)}
MaxExtents == {Undefined, NaN, Null, Num(0), Num(20), Num(200), PosInf}
HostThicknesses == {NaN, Undefined, PosInf, Null, Num(50)}
AxisOptions ==
    {Options(FALSE, FALSE, FALSE, Undefined),
     Options(TRUE, TRUE, FALSE, Undefined)}
    \cup {Options(TRUE, TRUE, TRUE, p) : p \in PadValues}

AxisInputs ==
    { [position |-> pos, isH |-> isHorizontal(pos), options |-> o,
       labels |-> l, maxWidth |-> m, maxHeight |-> m,
       width |-> IF isHorizontal(pos) THEN Num(300) ELSE t,
       height |-> IF isHorizontal(pos) THEN t ELSE Num(150),
       left |-> Num(1), right |-> Num(2), top |-> Num(3), bottom |-> Num(4),
       _length |-> Num(5)] :
        pos \in {"left", "bottom"}, o \in AxisOptions, l \in LabelOutcomes,
        m \in MaxExtents, t \in HostThicknesses }

NoFit == [state |-> "off"]
NoUpd == [state |-> "off"]
NoPatch == [state |-> "off"]
NoChat == [state |-> "off"]
NoLoader == [state |-> "off"]

(***************************************************************************)
(* Specification of the layout passes.                                     *)
(***************************************************************************)
\* hidden scales of a chart configuration: up to MaxHidden of them, or all
Hideable(shape) ==
    {h \in SUBSET shape : Cardinality(h) <= MaxHidden \/ h = shape}

Init ==
    /\ chartKind \in {"chart", "noScales", "null"}
    /\ \E shape \in ChartShapes, preset \in Presets :
         \E hidden \in Hideable(shape) :
            scales = IF chartKind = "chart"
                     THEN [id \in shape |-> NewScale(id, id \notin hidden, preset)]
                     ELSE <<>>
    /\ chartArea = NoArea
    /\ surface = NoSurface
    /\ host = [scales |-> scales, chartArea |-> chartArea,
               result |-> Undefined]
    /\ repaired = scales
    /\ placed = FALSE
    /\ status = "constructed"
    /\ result = Undefined
    /\ passes = 0
    /\ fit = NoFit
    /\ upd = NoUpd
    /\ stack = <<>>
    /\ patch = NoPatch
    /\ chat = NoChat
    /\ loader = NoLoader

\* the effect of one call of the wrapped Chart.layouts.update in which
\* origUpdate leaves the layout h, on surface s
Call(h, s) ==
    LET out == update(chartKind, h.scales, h.chartArea, h.result, s)
    IN  /\ passes < MaxPasses
        /\ host' = h
        /\ surface' = s
        /\ scales' = out.scales
        /\ chartArea' = out.chartArea
        /\ repaired' = out.repaired
        /\ placed' = out.placed
        /\ status' = out.status
        /\ result' = out.result
        /\ passes' = passes + 1
        /\ UNCHANGED <<chartKind, fit, upd, stack, pageVars>>

\* Chart.layouts.update(chart, width, height, padding): the host lays the
\* chart out afresh, then the patch repairs
LayoutUpdate ==
    /\ passes = 0
    /\ \E h \in HostLayouts(scales), s \in Surfaces : Call(h, s)

\* Chart.layouts.update called again on the same surface with a host layout
\* that reproduces the geometry of the previous pass
LayoutAgain ==
    /\ passes > 0
    /\ Call([scales |-> scales, chartArea |-> chartArea,
              result |-> Num(passes + 1)], surface)

Next == LayoutUpdate \/ LayoutAgain

Spec == Init /\ [][Next]_vars

(***************************************************************************)
(* Specification of the repair of one axis.                                *)
(***************************************************************************)
FitInit ==
    /\ chartKind = "chart"
    /\ scales = <<>>
    /\ chartArea = NoArea
    /\ surface = NoSurface
    /\ host = [scales |-> scales, chartArea |-> chartArea,
               result |-> Undefined]
    /\ repaired = scales
    /\ placed = FALSE
    /\ status = "constructed"
    /\ result = Undefined
    /\ passes = 0
    /\ \E a \in AxisInputs :
         fit = [state |-> "input", input |-> a, output |-> a,
                spacing |-> Undefined]
    /\ upd = NoUpd
    /\ stack = <<>>
    /\ patch = NoPatch
    /\ chat = NoChat
    /\ loader = NoLoader

\* the body of the repair loop applied to the axis
FitAxis ==
    /\ fit.state = "input"
    /\ fit' = [fit EXCEPT !.state = "fitted",
                          !.output = RepairScale(fit.input),
                          !.spacing = IF NeedsFit(fit.input)
                                      THEN pad(fit.input) ELSE Undefined]
    /\ UNCHANGED <<layoutVars, upd, stack, pageVars>>

FitNext == FitAxis

FitSpec == FitInit /\ [][FitNext]_vars

(***************************************************************************)
(* The per-scale hook of the margin patch: while the host layout runs,     *)
(* each scale's update is replaced by a wrapper that sanitizes maxW, maxH  *)
(* and the margins before calling the original update.                     *)
(***************************************************************************)
\* the margins argument: kind is "object", or "undefined" / "null" when the
\* host passes no margins; box gives left, right, top and bottom
Margins(kind, l, r, t, b) ==
    [kind |-> kind,
     box |-> [c \in Sides |->
                CASE c = "left" -> l [] c = "right" -> r
                  [] c = "top" -> t [] OTHER -> b]]

\* isFinite(margins.left) ? margins.left : 0
sanitizeMargin(v) == IF IsFinite(v) THEN v ELSE Num(0)

\* the arguments the wrapper hands to origUpdate.call(this, ...)
scaleUpdate(self, maxW, maxH, margins) ==
    [maxW |-> IF IsFinite(maxW) THEN maxW ELSE Or(self.maxWidth, Num(0)),
     maxH |-> IF IsFinite(maxH) THEN maxH ELSE Or(self.maxHeight, Num(0)),
     margins |-> IF margins.kind = "object"
                 THEN [kind |-> "object",
                       box |-> [c \in Sides |-> sanitizeMargin(margins.box[c])]]
                 ELSE margins]

MarginValues == {NaN, Undefined, Null, PosInf, NegInf,
                 Num(0), Num(12), Num(-5)}
FewMarginValues == {NaN, Null, Num(7)}
MarginInputs ==
    {Margins("undefined", Undefined, Undefined, Undefined, Undefined),
     Margins("null", Undefined, Undefined, Undefined, Undefined)}
    \cup {Margins("object", l, r, t, b) :
             l \in MarginValues, r \in MarginValues,
             t \in FewMarginValues, b \in FewMarginValues}
ExtentArgs == {NaN, Undefined, Null, PosInf, Num(0), Num(300)}
ScaleCeilings == {[maxWidth |-> Undefined, maxHeight |-> Undefined],
                  [maxWidth |-> Num(200), maxHeight |-> Num(60)]}

UpdInit ==
    /\ chartKind = "chart"
    /\ scales = <<>>
    /\ chartArea = NoArea
    /\ surface = NoSurface
    /\ host = [scales |-> scales, chartArea |-> chartArea,
               result |-> Undefined]
    /\ repaired = scales
    /\ placed = FALSE
    /\ status = "constructed"
    /\ result = Undefined
    /\ passes = 0
    /\ fit = NoFit
    /\ stack = <<>>
    /\ patch = NoPatch
    /\ chat = NoChat
    /\ loader = NoLoader
    /\ \E self \in ScaleCeilings, maxW \in ExtentArgs, maxH \in {NaN, Num(150)},
          margins \in MarginInputs :
         upd = [state |-> "called", self |-> self, maxW |-> maxW,
                maxH |-> maxH, margins |-> margins,
                passed |-> [maxW |-> maxW, maxH |-> maxH,
                            margins |-> margins]]

\* the host layout calls scale.update(maxW, maxH, margins): the wrapper calls
\* the original update with the sanitized arguments
ScaleUpdate ==
    /\ upd.state = "called"
    /\ upd' = [upd EXCEPT !.state = "passed",
                          !.passed = scaleUpdate(upd.self, upd.maxW, upd.maxH,
                                                 upd.margins)]
    /\ UNCHANGED <<layoutVars, fit, stack, pageVars>>

UpdNext == ScaleUpdate

UpdSpec == UpdInit /\ [][UpdNext]_vars


(***************************************************************************)
(* The margin patch as a whole: the install code wraps                     *)
(* Chart.layouts.update; each call of a wrapper saves every scale's update,*)
(* replaces it by a sanitizing wrapper, calls the function it wrapped and  *)
(* puts the saved updates back.  The host layout calls scale.update as     *)
(* often as it needs, can be entered again from a host callback, and can   *)
(* throw.                                                                  *)
(***************************************************************************)
\* runs of the install code, and calls of one scale's update in a pass
MaxInstalls == 2
MaxUpdates == 2

PatchScales == {"x", "y"}

\* what the host's own fit leaves as the scale's thickness
HostFits == {Num(50), NaN}

\* a wrapper that runs after the fit and overrides a non-finite thickness
hookCall_postFit(depth, fitted) ==
    [order |-> <<"fit">> \o [i \in 1..depth |-> "hook"],
     thickness |-> IF IsFinite(fitted) THEN fitted ELSE Num(0)]

\* one call of scale.update through depth stacked wrappers: each sanitizes
\* the arguments and then calls the update it wrapped, the innermost being
\* the host's own fit; nothing runs after the fit and its outcome is kept
hookCall(depth, fitted) ==
    [order |-> [i \in 1..depth |-> "hook"] \o <<"fit">>,
     thickness |-> fitted]

PatchInit ==
    /\ chartKind = "chart"
    /\ scales = <<>>
    /\ chartArea = NoArea
    /\ surface = NoSurface
    /\ host = [scales |-> scales, chartArea |-> chartArea,
               result |-> Undefined]
    /\ repaired = scales
    /\ placed = FALSE
    /\ status = "constructed"
    /\ result = Undefined
    /\ passes = 0
    /\ fit = NoFit
    /\ upd = NoUpd
    /\ stack = <<>>
    /\ chat = NoChat
    /\ loader = NoLoader
    /\ patch = [state |-> "installed",
                layers |-> 1,
                hooks |-> [id \in PatchScales |-> 0],
                frames |-> <<>>,
                calls |-> 0,
                runs |-> [id \in PatchScales |-> 0],
                thickness |-> [id \in PatchScales |-> Undefined],
                last |-> [id |-> "none", order |-> <<>>, fitted |-> Undefined],
                thrown |-> FALSE]

patchFrame == <<chartKind, scales, chartArea, surface, host, repaired,
                placed, status, result, passes, fit, upd, stack, chat, loader>>

\* the install code runs again: it wraps whatever Chart.layouts.update is
Install ==
    /\ patch.frames = <<>>
    /\ patch.layers < MaxInstalls
    /\ patch' = [patch EXCEPT !.layers = @ + 1]
    /\ UNCHANGED patchFrame

\* entry of a call of Chart.layouts.update: every wrapper layer saves the
\* scales' updates and wraps them, then the host layout starts
BeginPass ==
    /\ patch.calls < MaxCalls
    /\ Len(patch.frames) < MaxDepth
    /\ patch' = [patch EXCEPT
                    !.calls = @ + 1,
                    !.frames = Append(@, [saved |-> patch.hooks]),
                    !.hooks = [id \in PatchScales |->
                                 patch.hooks[id] + patch.layers],
                    !.runs = IF patch.frames = <<>>
                             THEN [id \in PatchScales |-> 0] ELSE @]
    /\ UNCHANGED patchFrame

\* the host calls Chart.layouts.update with no pass in progress
PassCall == patch.frames = <<>> /\ BeginPass

\* a host callback calls Chart.layouts.update while a host layout runs
NestedPassCall == patch.frames # <<>> /\ BeginPass

\* the host layout calls scale.update on a scale
HostUpdatesScale ==
    /\ patch.frames # <<>>
    /\ \E id \in PatchScales, fitted \in HostFits :
         /\ patch.runs[id] < MaxUpdates
         /\ LET c == hookCall(patch.hooks[id], fitted)
            IN  patch' = [patch EXCEPT
                            !.runs[id] = @ + 1,
                            !.thickness[id] = c.thickness,
                            !.last = [id |-> id, order |-> c.order,
                                      fitted |-> fitted]]
    /\ UNCHANGED patchFrame

\* the host layout of the innermost call returns: each wrapper layer puts
\* back the updates it saved and returns the result
HostReturns ==
    /\ patch.frames # <<>>
    /\ patch' = [patch EXCEPT
                    !.hooks = patch.frames[Len(patch.frames)].saved,
                    !.frames = SubSeq(@, 1, Len(@) - 1)]
    /\ UNCHANGED patchFrame

\* the host layout of the innermost call throws: the exception leaves the
\* wrappers before their restore loops
HostThrows ==
    /\ patch.frames # <<>>
    /\ patch' = [patch EXCEPT
                    !.frames = SubSeq(@, 1, Len(@) - 1),
                    !.thrown = TRUE]
    /\ UNCHANGED patchFrame

PatchNext ==
    \/ Install \/ PassCall \/ NestedPassCall \/ HostUpdatesScale
    \/ HostReturns \/ HostThrows

PatchSpec == PatchInit /\ [][PatchNext]_vars

(***************************************************************************)
(* The chatbot of docs/js/chatbot.js.  sendMessage is an async function:   *)
(* it can be called again (send button, Enter key, suggestion click) while *)
(* an earlier call is suspended at an await, either loading the system     *)
(* prompt or waiting for the API.  Messages are modelled by their role.    *)
(***************************************************************************)
MAX_HISTORY == 10

\* sendMessage calls made in one session
MaxSends == 11

\* sendMessage calls that can be in progress at once
Senders == {1, 2}

\* conversationHistory.slice(-n)
sliceLast(h, n) == IF Len(h) <= n THEN h ELSE SubSeq(h, Len(h) - n + 1, Len(h))

\* conversationHistory.pop()
popped(h) == IF h = <<>> THEN h ELSE SubSeq(h, 1, Len(h) - 1)

\* the history after the trim and the push of the user message
pushedUser(h) ==
    Append(IF Len(h) >= MAX_HISTORY * 2 THEN sliceLast(h, MAX_HISTORY * 2)
           ELSE h,
           "user")

ChatInit ==
    /\ chartKind = "chart"
    /\ scales = <<>>
    /\ chartArea = NoArea
    /\ surface = NoSurface
    /\ host = [scales |-> scales, chartArea |-> chartArea,
               result |-> Undefined]
    /\ repaired = scales
    /\ placed = FALSE
    /\ status = "constructed"
    /\ result = Undefined
    /\ passes = 0
    /\ fit = NoFit
    /\ upd = NoUpd
    /\ stack = <<>>
    /\ patch = NoPatch
    /\ loader = NoLoader
    /\ chat = [state |-> "injected",
               conversationHistory |-> <<>>,
               systemPrompt |-> FALSE,
               isStreaming |-> FALSE,
               input |-> FALSE,
               pc |-> [c \in Senders |-> "idle"],
               sends |-> 0,
               sent |-> 0]

chatFrame == <<chartKind, scales, chartArea, surface, host, repaired,
               placed, status, result, passes, fit, upd, stack, patch, loader>>

\* the part of sendMessage from the user bubble to the fetch: clears the
\* input, trims, pushes the user message, sets isStreaming and sends the
\* request with the whole history as its messages
post(ch, c) ==
    LET h == pushedUser(ch.conversationHistory)
    IN  [ch EXCEPT !.input = FALSE,
                   !.conversationHistory = h,
                   !.isStreaming = TRUE,
                   !.pc[c] = "fetching",
                   !.sent = Len(h)]

\* the user types a message (a suggestion click fills the input as well)
TypeText ==
    /\ ~chat.input
    /\ chat' = [chat EXCEPT !.input = TRUE]
    /\ UNCHANGED chatFrame

\* sendMessage is called: it returns at once without text or while
\* isStreaming; it awaits buildSystemPrompt() when there is no system prompt
\* yet, and goes on to the request otherwise
SendMessage ==
    /\ chat.input /\ ~chat.isStreaming
    /\ chat.sends < MaxSends
    /\ \E c \in Senders :
         /\ chat.pc[c] = "idle"
         /\ chat' = IF ~chat.systemPrompt
                    THEN [chat EXCEPT !.pc[c] = "loading", !.sends = @ + 1]
                    ELSE post([chat EXCEPT !.sends = @ + 1], c)
    /\ UNCHANGED chatFrame

\* buildSystemPrompt() resolves for a suspended call, which goes on to the
\* request
PromptLoaded ==
    /\ \E c \in Senders :
         /\ chat.pc[c] = "loading"
         /\ chat' = post([chat EXCEPT !.systemPrompt = TRUE], c)
    /\ UNCHANGED chatFrame

\* the response has streamed to its end: the assistant message is pushed
RequestSucceeds ==
    /\ \E c \in Senders :
         /\ chat.pc[c] = "fetching"
         /\ chat' = [chat EXCEPT
                        !.conversationHistory = Append(@, "assistant"),
                        !.isStreaming = FALSE,
                        !.pc[c] = "idle"]
    /\ UNCHANGED chatFrame

\* the request fails (network, API error, broken stream): the catch pops
\* the last entry of the history
RequestFails ==
    /\ \E c \in Senders :
         /\ chat.pc[c] = "fetching"
         /\ chat' = [chat EXCEPT
                        !.conversationHistory = popped(@),
                        !.isStreaming = FALSE,
                        !.pc[c] = "idle"]
    /\ UNCHANGED chatFrame

\* window.dotpChatClearKey()
ClearKey ==
    /\ chat.conversationHistory # <<>>
    /\ chat' = [chat EXCEPT !.conversationHistory = <<>>]
    /\ UNCHANGED chatFrame

ChatNext ==
    \/ TypeText \/ SendMessage \/ PromptLoaded \/ RequestSucceeds
    \/ RequestFails \/ ClearKey

ChatSpec == ChatInit /\ [][ChatNext]_vars

(***************************************************************************)
(* The JSON loader of docs/js/charts.js.  loadJSON is an async function:   *)
(* it looks the URL up in _cache, and on a miss awaits fetch(url) and      *)
(* res.json() before it stores the data.  The page scripts and the chatbot *)
(* call it for the same URLs; every res.json() builds a new object, which  *)
(* is modelled by a fresh identity.                                        *)
(***************************************************************************)
\* loadJSON calls made in one page load
MaxLoads == 4

\* loadJSON calls that can be in progress at once
Callers == {1, 2, 3}

Urls == {"data/teams.json", "data/trades.json"}

\* _cache[url] of a URL that was never stored (undefined)
NoData == 0

LoadInit ==
    /\ chartKind = "chart"
    /\ scales = <<>>
    /\ chartArea = NoArea
    /\ surface = NoSurface
    /\ host = [scales |-> scales, chartArea |-> chartArea,
               result |-> Undefined]
    /\ repaired = scales
    /\ placed = FALSE
    /\ status = "constructed"
    /\ result = Undefined
    /\ passes = 0
    /\ fit = NoFit
    /\ upd = NoUpd
    /\ stack = <<>>
    /\ patch = NoPatch
    /\ chat = NoChat
    /\ loader = [state |-> "ready",
                 _cache |-> [u \in Urls |-> NoData],
                 pc |-> [c \in Callers |-> "idle"],
                 url |-> [c \in Callers |-> "none"],
                 fetches |-> [u \in Urls |-> 0],
                 failures |-> [u \in Urls |-> 0],
                 received |-> [u \in Urls |-> {}],
                 parsed |-> 0,
                 loads |-> 0]

loadFrame == <<chartKind, scales, chartArea, surface, host, repaired,
               placed, status, result, passes, fit, upd, stack, patch, chat>>

\* loadJSON(url) is called: a cached URL is answered from _cache, any other
\* URL is fetched and the call is suspended at the await
LoadJSON ==
    /\ loader.loads < MaxLoads
    /\ \E c \in Callers, u \in Urls :
         /\ loader.pc[c] = "idle"
         /\ loader' =
              IF loader._cache[u] # NoData
              THEN [loader EXCEPT
                      !.received[u] = @ \cup {loader._cache[u]},
                      !.loads = @ + 1]
              ELSE [loader EXCEPT
                      !.pc[c] = "fetching",
                      !.url[c] = u,
                      !.fetches[u] = @ + 1,
                      !.loads = @ + 1]
    /\ UNCHANGED loadFrame

\* the response of a suspended call arrives with res.ok: res.json() parses
\* it into a new object, which is stored in _cache and returned
FetchSucceeds ==
    /\ \E c \in Callers :
         /\ loader.pc[c] = "fetching"
         /\ LET u == loader.url[c]
                data == loader.parsed + 1
            IN  loader' = [loader EXCEPT
                             !._cache[u] = data,
                             !.received[u] = @ \cup {data},
                             !.parsed = data,
                             !.pc[c] = "idle",
                             !.url[c] = "none"]
    /\ UNCHANGED loadFrame

\* the fetch of a suspended call rejects, or answers without res.ok: the
\* call throws before it reaches the store
FetchFails ==
    /\ \E c \in Callers :
         /\ loader.pc[c] = "fetching"
         /\ loader' = [loader EXCEPT
                         !.failures[loader.url[c]] = @ + 1,
                         !.pc[c] = "idle",
                         !.url[c] = "none"]
    /\ UNCHANGED loadFrame

LoadNext == LoadJSON \/ FetchSucceeds \/ FetchFails

LoadSpec == LoadInit /\ [][LoadNext]_vars

(***************************************************************************)
(* The layout pass step by step.  The wrapper is an ordinary function: a   *)
(* call made while another call is inside scale._getLabelSizes() (a host   *)
(* callback) enters at once, on top of the call in progress.               *)
(***************************************************************************)
\* Object.values(chart.scales) of the dual-axis chart
RepairOrder == <<"x", "y", "y2">>

\* a call in progress: the scales its repair loop has still to visit, and
\* whether it is inside the _getLabelSizes() call for the first of them
Frame(todo, measuring) == [todo |-> todo, measuring |-> measuring]

\* the body of a repair branch, its condition already taken
Refit(scale) ==
    IF scale.isH
    THEN [scale EXCEPT !.height = fitHeight(scale), !._length = scale.width]
    ELSE [scale EXCEPT !.width = fitWidth(scale), !._length = scale.height]

\* host layouts that leave chart.chartArea an object, with NaN fields
AreaLayouts(ss) == {h \in HostLayouts(ss) : h.chartArea = HostArea("NaN")}

ReInit ==
    /\ chartKind = "chart"
    /\ \E preset \in Presets :
         scales = [id \in {"x", "y", "y2"} |-> NewScale(id, TRUE, preset)]
    /\ chartArea = NoArea
    /\ surface \in {s \in Surfaces : s.width = Num(800)}
    /\ host = [scales |-> scales, chartArea |-> chartArea,
               result |-> Undefined]
    /\ repaired = scales
    /\ placed = FALSE
    /\ status = "constructed"
    /\ result = Undefined
    /\ passes = 0
    /\ fit = NoFit
    /\ upd = NoUpd
    /\ stack = <<>>
    /\ patch = NoPatch
    /\ chat = NoChat
    /\ loader = NoLoader

\* entry of the wrapper: origUpdate lays the chart out (h), then the scan
\* for a scale to repair either returns at once or starts the repair loop
Enter(h) ==
    /\ passes < MaxCalls
    /\ Len(stack) < MaxDepth
    /\ passes' = passes + 1
    /\ host' = h
    /\ scales' = h.scales
    /\ chartArea' = h.chartArea
    /\ IF needsRepair(h.scales)
       THEN /\ stack' = Append(stack, Frame(RepairOrder, FALSE))
            /\ UNCHANGED <<status, result>>
       ELSE /\ stack' = stack
            /\ status' = IF stack = <<>> THEN "returned" ELSE status
            /\ result' = IF stack = <<>> THEN h.result ELSE result
    /\ UNCHANGED <<chartKind, surface, repaired, placed, fit, upd, pageVars>>

\* Chart.layouts.update called by the host with no call in progress
LayoutCall ==
    /\ stack = <<>>
    /\ \E h \in AreaLayouts(scales) : Enter(h)

\* Chart.layouts.update called from inside the label measurer of a call in
\* progress
NestedCall ==
    /\ stack # <<>>
    /\ stack[Len(stack)].measuring
    /\ \E h \in AreaLayouts(scales) : Enter(h)

\* the innermost call's repair loop takes its next scale: it skips a scale
\* that needs no fit, refits one without a measurer, and calls the measurer
\* of any other
RepairStep ==
    /\ stack # <<>>
    /\ LET top == stack[Len(stack)]
           id == Head(top.todo)
       IN  /\ ~top.measuring
           /\ top.todo # <<>>
           /\ IF ~NeedsFit(scales[id])
              THEN /\ stack' = [stack EXCEPT ![Len(stack)] =
                                    Frame(Tail(top.todo), FALSE)]
                   /\ scales' = scales
              ELSE IF scales[id].labels.kind = "absent"
              THEN /\ stack' = [stack EXCEPT ![Len(stack)] =
                                    Frame(Tail(top.todo), FALSE)]
                   /\ scales' = [scales EXCEPT ![id] = Refit(@)]
              ELSE /\ stack' = [stack EXCEPT ![Len(stack)] =
                                    Frame(top.todo, TRUE)]
                   /\ scales' = scales
    /\ UNCHANGED <<chartKind, chartArea, surface, host, repaired, placed,
                   status, result, passes, fit, upd, pageVars>>

\* the measurer returns (or throws into the catch) and the branch assigns
\* the fitted thickness
MeasureReturn ==
    /\ stack # <<>>
    /\ LET top == stack[Len(stack)]
           id == Head(top.todo)
       IN  /\ top.measuring
           /\ scales' = [scales EXCEPT ![id] = Refit(@)]
           /\ stack' = [stack EXCEPT ![Len(stack)] =
                            Frame(Tail(top.todo), FALSE)]
    /\ UNCHANGED <<chartKind, chartArea, surface, host, repaired, placed,
                   status, result, passes, fit, upd, pageVars>>

\* the repair loop of the innermost call is over: it recomputes the region,
\* writes it and places the scales if the region is positive, and returns
Finish ==
    /\ stack # <<>>
    /\ LET top == stack[Len(stack)]
           a == ca(scales, chartW(surface), chartH(surface))
       IN  /\ ~top.measuring
           /\ top.todo = <<>>
           /\ repaired' = scales
           /\ placed' = writes(a)
           /\ IF writes(a)
              THEN /\ chartArea' = a
                   /\ scales' = [id \in DOMAIN scales |->
                                    place(scales[id], a, chartW(surface),
                                          chartH(surface))]
              ELSE UNCHANGED <<chartArea, scales>>
           /\ stack' = SubSeq(stack, 1, Len(stack) - 1)
           /\ status' = IF Len(stack) = 1 THEN "returned" ELSE status
           /\ result' = IF Len(stack) = 1 THEN host.result ELSE result
    /\ UNCHANGED <<chartKind, surface, host, passes, fit, upd, pageVars>>

ReNext == LayoutCall \/ NestedCall \/ RepairStep \/ MeasureReturn \/ Finish

ReSpec == ReInit /\ [][ReNext]_vars

(***************************************************************************)
(* Properties of the layout pass.                                          *)
(***************************************************************************)
\* a layout pass of a chart with scales has returned
PassReturned == passes > 0 /\ status = "returned" /\ chartKind = "chart"

AreaFields == {"left", "right", "top", "bottom", "width", "height"}
area(a) == [f \in AreaFields |->
              CASE f = "left" -> a.left [] f = "right" -> a.right
                [] f = "top" -> a.top [] f = "bottom" -> a.bottom
                [] f = "width" -> a.width [] OTHER -> a.height]

GeometryFields == AreaFields \cup {"_length"}
geometry(scale) == [f \in GeometryFields |->
                      IF f = "_length" THEN scale._length ELSE area(scale)[f]]

\* the host left some scale with a width or height that is not a finite
\* number (NaN, undefined, null or infinite)
HostDefective ==
    \E id \in DOMAIN host.scales :
        ~IsFiniteNumber(host.scales[id].width)
            \/ ~IsFiniteNumber(host.scales[id].height)

\* C1: after the wrapped Chart.layouts.update returns, chart.chartArea has
\* finite left, top, right, bottom, width and height, with width >= 0 and
\* height >= 0, whatever the host left in the scales (here: at least one
\* width or height NaN, undefined, null or infinite) and whatever the canvas
\* size.
C1_ChartAreaFiniteNonNegative ==
    (PassReturned /\ HostDefective) =>
        /\ chartArea.obj
        /\ \A f \in AreaFields : IsFiniteNumber(area(chartArea)[f])
        /\ chartArea.width.v >= 0
        /\ chartArea.height.v >= 0

\* C2: after every layout pass, every scale's width, height, left, right,
\* top, bottom and _length is a finite number, whatever the host left there.
C2_ScaleGeometryFinite ==
    PassReturned =>
        \A id \in DOMAIN scales :
            \A f \in GeometryFields : IsFiniteNumber(geometry(scales[id])[f])

\* C3: a scale whose width or height the host left null is recognised as
\* needing repair and ends the pass with a finite numeric thickness, not null.
C3_NullThicknessRepaired ==
    PassReturned =>
        \A id \in DOMAIN scales :
            (host.scales[id].width = Null \/ host.scales[id].height = Null)
                => /\ needsRepair(host.scales)
                   /\ IsFiniteNumber(Thickness(scales[id]))


\* the thickness the shown bands of two opposing sides need together, and
\* whether it exceeds the canvas extent
overfullWidth ==
    Gt(Add(padOf("left", repaired), padOf("right", repaired)), chartW(surface))
overfullHeight ==
    Gt(Add(padOf("top", repaired), padOf("bottom", repaired)), chartH(surface))

\* the canvas has a positive width and height
canvasPositive ==
    Gt(chartW(surface), Num(0)) /\ Gt(chartH(surface), Num(0))

C5_NoOpWhenFinite ==
    (passes > 0 /\ chartKind = "chart" /\ ~HostDefective) =>
        /\ scales = host.scales
        /\ chartArea = host.chartArea
        /\ status = "returned"
        /\ result = host.result

\* a pass over a chart with scales, all finite, on a canvas where a repair
\* would have written a different region
C5_Witness ==
    /\ passes > 0 /\ chartKind = "chart" /\ ~HostDefective
    /\ Cardinality(DOMAIN scales) >= 3
    /\ writes(ca(host.scales, chartW(surface), chartH(surface)))
    /\ chartArea # ca(host.scales, chartW(surface), chartH(surface))

\* C6: applying the pass again to the state it left, with the same canvas
\* size, changes neither the scales nor chartArea.
C6_RepairIdempotent ==
    [][LayoutAgain => (scales' = scales /\ chartArea' = chartArea)]_vars

\* a second pass that found scales still in need of repair and wrote the
\* region again
C6_Witness ==
    /\ passes = 2
    /\ needsRepair(host.scales)
    /\ placed


(***************************************************************************)
(* Tiling of the canvas by the band boxes and the plotting region.         *)
(***************************************************************************)
Box(l, r, t, b) == [l |-> l, r |-> r, t |-> t, b |-> b]
boxOf(x) == Box(x.left.v, x.right.v, x.top.v, x.bottom.v)
Larger(m, n) == IF m > n THEN m ELSE n
Smaller(m, n) == IF m < n THEN m ELSE n
boxArea(bx) == (bx.r - bx.l) * (bx.b - bx.t)
inside(bx, w, h) ==
    0 <= bx.l /\ bx.l <= bx.r /\ bx.r <= w /\ 0 <= bx.t /\ bx.t <= bx.b /\ bx.b <= h
\* the two boxes share a part of positive area
overlap(b1, b2) ==
    /\ Larger(b1.l, b2.l) < Smaller(b1.r, b2.r)
    /\ Larger(b1.t, b2.t) < Smaller(b1.b, b2.b)

RECURSIVE totalArea(_, _)
totalArea(boxes, names) ==
    IF names = {} THEN 0
    ELSE LET n == CHOOSE m \in names : TRUE
         IN  boxArea(boxes[n]) + totalArea(boxes, names \ {n})

\* the named boxes lie in the canvas, no two overlap, and none of the canvas
\* is left uncovered
partition(boxes, w, h) ==
    /\ \A n \in DOMAIN boxes : inside(boxes[n], w, h)
    /\ \A m, n \in DOMAIN boxes : m # n => ~overlap(boxes[m], boxes[n])
    /\ totalArea(boxes, DOMAIN boxes) = w * h

\* the boxes of the scales on the four sides, and the plotting region
sideScales == {id \in DOMAIN scales : scales[id].position \in Sides}
bandBoxes ==
    [n \in sideScales \cup {"chartArea"} |->
        IF n = "chartArea" THEN boxOf(chartArea) ELSE boxOf(scales[n])]

\* the four corner rectangles between adjacent bands
cornerBoxes ==
    LET a == boxOf(chartArea)
        w == chartW(surface).v
        h == chartH(surface).v
    IN  [n \in {"topLeft", "topRight", "bottomLeft", "bottomRight"} |->
            CASE n = "topLeft" -> Box(0, a.l, 0, a.t)
              [] n = "topRight" -> Box(a.r, w, 0, a.t)
              [] n = "bottomLeft" -> Box(0, a.l, a.b, h)
              [] OTHER -> Box(a.r, w, a.b, h)]

oneBandPerSide ==
    \A m, n \in sideScales :
        m # n => scales[m].position # scales[n].position

\* C7 as claimed: in any layout the pass writes (one band per side, positive
\* region) the boxes of the left, right, top and bottom scales and chartArea
\* exactly partition the canvas: no overlap and nothing uncovered, corners
\* included.
C7_BoxesPartitionCanvas ==
    (PassReturned /\ placed /\ oneBandPerSide) =>
        partition(bandBoxes, chartW(surface).v, chartH(surface).v)

\* C7 as amended: in any layout the pass writes, the boxes of the left,
\* right, top and bottom scales, chartArea and the four corner rectangles
\* between adjacent bands exactly partition the canvas: the boxes do not
\* overlap and cover everything except those corners, which no box covers.
C7_BoxesAndCornersPartitionCanvas ==
    (PassReturned /\ placed /\ oneBandPerSide) =>
        partition(bandBoxes @@ cornerBoxes,
                  chartW(surface).v, chartH(surface).v)

\* a written layout with a band of positive thickness on each of the four
\* sides
C7_Witness ==
    /\ PassReturned /\ placed /\ oneBandPerSide
    /\ \A side \in Sides :
         \E id \in sideScales :
            scales[id].position = side /\ Gt(Thickness(scales[id]), Num(0))

(***************************************************************************)
(* Properties of the repair of one axis.                                   *)
(***************************************************************************)
\* the axis was taken through the repair loop and the loop refitted it
Fitted == fit.state = "fitted" /\ NeedsFit(fit.input)

maxExtent(scale) == IF scale.isH THEN scale.maxHeight ELSE scale.maxWidth
labelExtent(scale) == IF scale.isH THEN scale.labels.h ELSE scale.labels.w

\* ticks.padding is missing: no options, no ticks, or padding undefined
paddingAbsent(scale) ==
    \/ ~scale.options.present
    \/ ~scale.options.hasTicks
    \/ scale.options.padding = Undefined

\* C8: for every axis fitted with a finite non-negative label extent, a
\* finite tick padding of any sign and a finite positive maximum extent, the
\* computed thickness lies in [0, maxExtent].
C8_ThicknessWithinMaxExtent ==
    (/\ Fitted
     /\ fit.input.labels.kind = "sizes"
     /\ IsFiniteNumber(labelExtent(fit.input))
     /\ labelExtent(fit.input).v >= 0
     /\ fit.input.options.present /\ fit.input.options.hasTicks
     /\ IsFiniteNumber(fit.input.options.padding)
     /\ IsFiniteNumber(maxExtent(fit.input))
     /\ maxExtent(fit.input).v > 0)
    => /\ IsFiniteNumber(Thickness(fit.output))
       /\ Thickness(fit.output).v >= 0
       /\ Thickness(fit.output).v <= maxExtent(fit.input).v

\* C9: the spacing used to fit an axis is ticks.padding coerced to a number
\* when that is present, finite and >= 0 (0 included), and the default
\* spacing 3 in every other case (absent, NaN, negative, infinite); it is
\* always finite.
C9_SpacingResolved ==
    Fitted =>
        LET o == fit.input.options
            usable == /\ o.present /\ o.hasTicks
                      /\ IsFiniteNumber(o.padding) /\ o.padding.v >= 0
        IN  /\ usable => fit.spacing = o.padding
            /\ ~usable => fit.spacing = Num(3)
            /\ IsFiniteNumber(fit.spacing)

\* the axis with ticks.padding set to p
withPadding(scale, p) ==
    [scale EXCEPT !.options = Options(TRUE, scale.options.display, TRUE, p)]

\* C10: for every axis whose ticks.padding is absent, the fitted thickness is
\* finite and equals the thickness fitted for the same axis with
\* ticks.padding set to the default spacing 3.
C10_AbsentPaddingFitsAsDefault ==
    (Fitted /\ paddingAbsent(fit.input)) =>
        /\ IsFiniteNumber(Thickness(fit.output))
        /\ Thickness(fit.output)
             = Thickness(RepairScale(withPadding(fit.input, Num(3))))

\* Scenario A's axis: label width 40, padding absent, maxWidth 200 -> 54
C10_Witness ==
    /\ Fitted /\ paddingAbsent(fit.input)
    /\ ~fit.input.isH
    /\ fit.input.labels = Labels("sizes", Num(40), Num(12))
    /\ fit.input.maxWidth = Num(200)
    /\ fit.output.width = Num(54)

(***************************************************************************)
(* Properties of the fit and of the region inside a layout pass.           *)
(***************************************************************************)
\* the scale is shown: options.display is set
shown(scale) == scale.options.present /\ scale.options.display

\* the scale the host left in need of a fit has a measured label extent and a
\* positive finite ceiling
fitInputsUsable(scale) ==
    /\ NeedsFit(scale)
    /\ scale.labels.kind = "sizes"
    /\ IsFiniteNumber(labelExtent(scale))
    /\ IsFiniteNumber(maxExtent(scale)) /\ maxExtent(scale).v > 0

\* Scenario A: a chart with one shown left axis, label width 40, padding
\* absent, maxWidth 200, laid out on a canvas of 800 x 400, the host having
\* left the axis width non-finite
scenarioA ==
    /\ PassReturned
    /\ DOMAIN scales = {"y"}
    /\ chartW(surface) = Num(800) /\ chartH(surface) = Num(400)
    /\ NeedsFit(host.scales["y"])
    /\ shown(host.scales["y"])
    /\ host.scales["y"].labels.w = Num(40)
    /\ host.scales["y"].labels.kind = "sizes"
    /\ paddingAbsent(host.scales["y"])
    /\ host.scales["y"].maxWidth = Num(200)

\* C11: a fitted vertical axis gets width min(maxWidth, labelWidth +
\* 2 * spacing + 8) and a fitted horizontal axis height min(maxHeight,
\* labelHeight + 2 * spacing + 8), the spacing being 3 when ticks.padding is
\* absent; in Scenario A the thickness is 54 and chartArea.left equals it.
C11_FittedThickness ==
    /\ PassReturned =>
         \A id \in DOMAIN scales :
            LET h == host.scales[id]
                spacing == IF paddingAbsent(h) THEN 3 ELSE pad(h).v
            IN  fitInputsUsable(h) =>
                    Thickness(repaired[id])
                        = Num(Smaller(maxExtent(h).v,
                                      labelExtent(h).v + 2 * spacing + 8))
    /\ scenarioA =>
         /\ repaired["y"].width = Num(54)
         /\ scales["y"].width = Num(54)
         /\ chartArea.left = Num(54)

\* Scenario A reached, with the region written
C11_Witness ==
    /\ scenarioA
    /\ placed
    /\ chartArea.left = Num(54)

\* C12: when the label measurer of an axis in need of a fit throws or returns
\* no usable size, the exception is not propagated and the layout pass
\* completes, the axis gets a finite thickness > 0, and for a shown left axis
\* the resulting chartArea.left is finite and > 0, never NaN.
C12_MeasurerFailureContained ==
    (passes > 0 /\ chartKind = "chart") =>
        \A id \in DOMAIN scales :
            LET h == host.scales[id]
            IN  (NeedsFit(h) /\ h.labels.kind \in {"throws", "none"}) =>
                    /\ status = "returned"
                    /\ IsFiniteNumber(Thickness(repaired[id]))
                    /\ Thickness(repaired[id]).v > 0
                    /\ (shown(h) /\ h.position = "left") =>
                            /\ chartArea.obj
                            /\ IsFiniteNumber(chartArea.left)
                            /\ chartArea.left.v > 0

\* the thickness the repair loop left on the scale shown on a side (a null
\* thickness counting as 0), 0 when no scale is shown there
sideThickness(side) ==
    LET vis == {id \in DOMAIN repaired :
                   shown(repaired[id]) /\ repaired[id].position = side}
    IN  IF vis = {} THEN 0
        ELSE ToNumber(Thickness(repaired[CHOOSE id \in vis : TRUE])).v

\* C13: when the pass recomputes chartArea, left is the left thickness, right
\* the canvas width minus the right thickness, top the top thickness, bottom
\* the canvas height minus the bottom thickness, width = right - left and
\* height = bottom - top; a side's thickness is that of the scale shown
\* there, 0 when none is (a scale with display off counts 0).
C13_RegionFromThickness ==
    (PassReturned /\ placed) =>
        /\ chartArea.left = Num(sideThickness("left"))
        /\ chartArea.right
             = Num(chartW(surface).v - sideThickness("right"))
        /\ chartArea.top = Num(sideThickness("top"))
        /\ chartArea.bottom
             = Num(chartH(surface).v - sideThickness("bottom"))
        /\ chartArea.width = Num(chartArea.right.v - chartArea.left.v)
        /\ chartArea.height = Num(chartArea.bottom.v - chartArea.top.v)

\* a written region of a chart with a hidden band of positive thickness on
\* one side and shown bands of positive thickness on two others
C13_Witness ==
    /\ PassReturned /\ placed
    /\ \E id \in DOMAIN repaired :
         /\ ~shown(repaired[id]) /\ repaired[id].position \in Sides
         /\ Gt(Thickness(repaired[id]), Num(0))
    /\ sideThickness("left") > 0
    /\ sideThickness("bottom") > 0

\* no scale of the chart is shown
noneShown == \A id \in DOMAIN scales : ~shown(scales[id])

\* C14: when no axis is shown on any side, the chartArea the pass writes is
\* the full canvas rectangle: left 0, top 0, right the canvas width, bottom
\* the canvas height.
C14_NoAxisRegionIsCanvas ==
    (PassReturned /\ placed /\ noneShown) =>
        /\ chartArea.left = Num(0)
        /\ chartArea.top = Num(0)
        /\ chartArea.right = chartW(surface)
        /\ chartArea.bottom = chartH(surface)
        /\ chartArea.width = chartW(surface)
        /\ chartArea.height = chartH(surface)

\* a written region of a chart whose scales are all hidden, one of them
\* refitted to a positive thickness
C14_Witness ==
    /\ PassReturned /\ placed /\ noneShown
    /\ \E id \in DOMAIN repaired :
         /\ NeedsFit(host.scales[id])
         /\ repaired[id].position \in Sides
         /\ Gt(Thickness(repaired[id]), Num(0))

\* C15: in every layout the pass writes, the box of each scale on a side is
\* derived from chartArea: left scale {left 0, right region.left, top
\* region.top, bottom region.bottom}, right scale {left region.right, right
\* canvas width}, top scale {top 0, bottom region.top}, bottom scale {top
\* region.bottom, bottom canvas height, left region.left, right region.right};
\* width = right - left, height = bottom - top, and _length is region.height
\* for left/right scales and region.width for top/bottom scales.
C15_BoxesFromRegion ==
    (PassReturned /\ placed) =>
        \A id \in sideScales :
            LET sc == scales[id]
                r == chartArea
                onLeftRight == sc.position \in {"left", "right"}
            IN  /\ sc.position = "left" =>
                     /\ sc.left = Num(0) /\ sc.right = r.left
                /\ sc.position = "right" =>
                     /\ sc.left = r.right /\ sc.right = chartW(surface)
                /\ onLeftRight => (sc.top = r.top /\ sc.bottom = r.bottom)
                /\ sc.position = "top" =>
                     /\ sc.top = Num(0) /\ sc.bottom = r.top
                /\ sc.position = "bottom" =>
                     /\ sc.top = r.bottom /\ sc.bottom = chartH(surface)
                /\ ~onLeftRight => (sc.left = r.left /\ sc.right = r.right)
                /\ sc.width = Num(sc.right.v - sc.left.v)
                /\ sc.height = Num(sc.bottom.v - sc.top.v)
                /\ sc._length = IF onLeftRight THEN r.height ELSE r.width

\* a written layout with a scale on each of the four sides, the host having
\* left the geometry NaN
C15_Witness ==
    /\ PassReturned /\ placed
    /\ \A side \in Sides : \E id \in sideScales : scales[id].position = side
    /\ \E id \in sideScales : host.scales[id].left = NaN

\* C17: a layout pass never raises an exception of its own: whatever the
\* chart (null, without scales, chartArea null or missing, non-finite scale
\* fields, throwing label measurer, degenerate canvas), the wrapped
\* Chart.layouts.update returns normally.
C17_PassNeverThrows ==
    passes > 0 => status = "returned"

(***************************************************************************)
(* Fallbacks of the repair of one axis.                                    *)
(***************************************************************************)
\* no usable label measurement: no measurer, it throws, or returns nothing
unmeasured(scale) == scale.labels.kind \in {"absent", "throws", "none"}

\* the ceiling used when the axis has no usable maximum extent
fallbackCeiling(scale) == IF scale.isH THEN Num(60) ELSE Num(200)

\* label extent + 2 * spacing + 8 for the fitted axis, an unusable label
\* extent counting as 0
uncapped ==
    LET lab == IF unmeasured(fit.input) THEN Num(0)
               ELSE Or(labelExtent(fit.input), Num(0))
    IN  Add(Add(lab, Mul(fit.spacing, Num(2))), Num(8))

\* C19 as claimed: when an axis thickness is non-finite and no usable label
\* measurement is available, the thickness assigned is the axis's maximum
\* extent (here: a finite positive one).
C19_FallbackIsMaxExtent ==
    (/\ Fitted /\ unmeasured(fit.input)
     /\ IsFiniteNumber(maxExtent(fit.input)) /\ maxExtent(fit.input).v > 0)
    => Thickness(fit.output) = maxExtent(fit.input)

\* C19 as amended: without a usable label measurement the label extent counts
\* as 0 and the thickness assigned is min(ceiling, 2 * spacing + 8), the
\* ceiling being the maximum extent, or 200 (width) / 60 (height) when that
\* is missing, NaN, null or 0.
C19_FallbackIsUnlabelledFit ==
    (Fitted /\ unmeasured(fit.input)) =>
        Thickness(fit.output)
            = MathMin(Or(maxExtent(fit.input), fallbackCeiling(fit.input)),
                      Add(Mul(fit.spacing, Num(2)), Num(8)))

\* a vertical axis whose measurer throws, maxWidth 200, default spacing: 14
C19_Witness ==
    /\ Fitted /\ ~fit.input.isH
    /\ fit.input.labels.kind = "throws"
    /\ fit.input.maxWidth = Num(200)
    /\ fit.spacing = Num(3)
    /\ fit.output.width = Num(14)

C16_MarginsSanitized ==
    (upd.state = "passed" /\ upd.margins.kind = "object") =>
        /\ upd.passed.margins.kind = "object"
        /\ \A c \in Sides :
             IF IsFiniteNumber(upd.margins.box[c])
             THEN upd.passed.margins.box[c] = upd.margins.box[c]
             ELSE upd.passed.margins.box[c] = Num(0)

(***************************************************************************)
(* Properties of nested layout passes.                                     *)
(***************************************************************************)
\* C18: a layout pass requested on the same chart while the repair of another
\* is in progress is deferred until that one has finished: at no time are
\* two passes in progress over the chart's scales.
C18_NestedPassDeferred ==
    Len(stack) <= 1

(***************************************************************************)
(* Order and frame of the layout pass.                                     *)
(***************************************************************************)
\* C21: each call of the wrapped Chart.layouts.update runs the host layout
\* once, repairs only what that host layout left (the repair works on the
\* host's output), and hands the host's return value back unchanged.
C21_HostResultHandedBack ==
    passes > 0 =>
        /\ status = "returned"
        /\ result = host.result
        /\ (chartKind = "chart" /\ needsRepair(host.scales)) =>
                repaired = [id \in DOMAIN host.scales |->
                               RepairScale(host.scales[id])]

\* left, right, top and bottom of a scale
edges(scale) == <<scale.left, scale.right, scale.top, scale.bottom>>

\* the region recomputed by the repair of the last pass
recomputed == ca(repaired, chartW(surface), chartH(surface))

C24_ExtentsSanitized ==
    upd.state = "passed" =>
        /\ IsFiniteNumber(upd.passed.maxW)
        /\ IsFiniteNumber(upd.passed.maxH)
        /\ ~IsFiniteNumber(upd.maxW) =>
                upd.passed.maxW = Or(upd.self.maxWidth, Num(0))
        /\ ~IsFiniteNumber(upd.maxH) =>
                upd.passed.maxH = Or(upd.self.maxHeight, Num(0))

\* C22 as claimed: the per-axis hook runs once per axis in each layout pass,
\* after the host's own fit of that axis, so that the thickness the host
\* goes on to accumulate is one the hook has corrected (a finite one).
C22_HookOncePostFit ==
    patch.last.id # "none" =>
        /\ patch.runs[patch.last.id] <= 1
        /\ patch.last.order[1] = "fit"
        /\ IsFiniteNumber(patch.thickness[patch.last.id])

\* C22 as amended: the per-axis hook runs on every call the host makes of
\* scale.update, before the host's own fit of that axis (it acts on the
\* arguments), and the thickness the fit leaves is kept as it is.
C22_HookPreFitEveryCall ==
    patch.last.id # "none" =>
        /\ patch.last.order[Len(patch.last.order)] = "fit"
        /\ \A i \in 1..(Len(patch.last.order) - 1) :
             patch.last.order[i] = "hook"
        /\ Len(patch.last.order) >= 2
        /\ patch.thickness[patch.last.id] = patch.last.fitted

\* a pass in which the host has updated one scale twice and its last fit
\* left a NaN thickness
C22_Witness ==
    /\ patch.last.id # "none"
    /\ patch.runs[patch.last.id] = 2
    /\ patch.thickness[patch.last.id] = NaN

\* C23: installing is idempotent: however often the install code runs,
\* Chart.layouts.update is wrapped exactly once.
C23_InstalledOnce ==
    patch.layers = 1

\* C25: after any sequence of layout passes, nested passes and passes whose
\* host layout throws included, every scale's update is the function it was
\* before the first pass: no wrapper is left on it.
C25_WrappersRemoved ==
    patch.frames = <<>> => \A id \in PatchScales : patch.hooks[id] = 0

(***************************************************************************)
(* Properties of the chatbot.                                              *)
(***************************************************************************)
\* the sendMessage calls that have a request in flight
inFlight == {c \in Senders : chat.pc[c] = "fetching"}

\* C27: the chatbot has at most one API request in flight at any time, also
\* when sendMessage is called again while the system prompt is still being
\* loaded for the first message.
C27_OneRequestInFlight ==
    Cardinality(inFlight) <= 1

\* user and assistant messages alternate, starting with a user message
alternating(h) ==
    \A i \in 1..Len(h) :
        h[i] = IF i % 2 = 1 THEN "user" ELSE "assistant"

\* C28: whenever no request is in flight, conversationHistory is a strictly
\* alternating sequence of user and assistant messages that starts with a
\* user message.
C28_HistoryAlternates ==
    inFlight = {} => alternating(chat.conversationHistory)

\* C29: conversationHistory never holds more than 2 * MAX_HISTORY = 20
\* entries, and no request carries more than 20 messages.
C29_HistoryBounded ==
    /\ Len(chat.conversationHistory) <= 20
    /\ chat.sent <= 20

\* C30: loadJSON fetches each URL at most once as long as its fetches
\* succeed, also when several callers ask for the same URL before the first
\* response has arrived; every caller of a URL receives the same data
\* object; a failed fetch stores nothing in the cache
C30_FetchedOnceSharedObject ==
    /\ [](\A u \in Urls :
            /\ loader.state = "ready" /\ loader.failures[u] = 0
                 => loader.fetches[u] <= 1
            /\ loader.state = "ready"
                 => Cardinality(loader.received[u]) <= 1)
    /\ [][\A u \in Urls :
            loader.state = "ready" /\ loader'.failures[u] > loader.failures[u]
              => loader'._cache = loader._cache]_vars

====
